---- MODULE Spec2Model ----
(***************************************************************************)
(* Hotel GST Impact Calculator (India): src/app.py.                        *)
(*                                                                         *)
(* The script is a Streamlit page: every change of a sidebar widget reruns *)
(* the whole script, which recomputes every derived value from the three   *)
(* widget values.  All derived values are Python floats (IEEE-754 binary64 *)
(* with round-to-nearest-even), so the arithmetic is modelled bit-exactly: *)
(* a float is a dyadic rational  m * 2^e  whose mantissa m is an           *)
(* arbitrary-precision natural number, and every float operation is the    *)
(* exact operation followed by rounding to 53 significant bits.            *)
(***************************************************************************)
EXTENDS Integers, Sequences, FiniteSets

(***************************************************************************)
(* Arbitrary-precision naturals: little-endian sequences of limbs in       *)
(* radix 2^15, without high zero limbs; zero is the empty sequence.        *)
(*                                                                         *)
(* Operators that use an operand more than once bind its value first, in   *)
(* the form  CHOOSE r \in {body : v \in {operand}} : TRUE,  which is the   *)
(* body evaluated with v bound to the operand's value (call by value).     *)
(***************************************************************************)
LimbBits == 15

RECURSIVE Pow2(_)
Pow2(k) == IF k = 0 THEN 1 ELSE 2 * Pow2(k - 1)

Radix == Pow2(LimbBits)

RECURSIVE BNTrimAt(_, _)
BNTrimAt(a, n) ==
    IF n = 0 THEN <<>>
    ELSE IF a[n] # 0 THEN SubSeq(a, 1, n)
    ELSE BNTrimAt(a, n - 1)

BNTrim(a) == CHOOSE r \in {BNTrimAt(v, Len(v)) : v \in {a}} : TRUE

RECURSIVE BNFromInt(_)
BNFromInt(n) == IF n = 0 THEN <<>> ELSE <<n % Radix>> \o BNFromInt(n \div Radix)

LimbAt(a, i) == IF i <= Len(a) THEN a[i] ELSE 0

\* limbs i.. of a + b + c
RECURSIVE BNAddAt(_, _, _, _)
BNAddAt(a, b, i, c) ==
    IF i > Len(a) /\ i > Len(b) THEN (IF c = 0 THEN <<>> ELSE <<c>>)
    ELSE <<(LimbAt(a, i) + LimbAt(b, i) + c) % Radix>>
            \o BNAddAt(a, b, i + 1, (LimbAt(a, i) + LimbAt(b, i) + c) \div Radix)

BNAdd(a, b) == CHOOSE r \in {BNAddAt(x, y, 1, 0) : x \in {a}, y \in {b}} : TRUE

\* limbs i.. of a - b - c, for a >= b (before trimming)
RECURSIVE BNSubAt(_, _, _, _)
BNSubAt(a, b, i, c) ==
    IF i > Len(a) THEN <<>>
    ELSE IF a[i] - LimbAt(b, i) - c < 0
         THEN <<a[i] - LimbAt(b, i) - c + Radix>> \o BNSubAt(a, b, i + 1, 1)
         ELSE <<a[i] - LimbAt(b, i) - c>> \o BNSubAt(a, b, i + 1, 0)

BNSub(a, b) ==
    CHOOSE r \in {BNTrimAt(d, Len(d)) : d \in {BNSubAt(x, y, 1, 0) : x \in {a}, y \in {b}}} : TRUE

\* -1, 0, 1 as a < b, a = b, a > b
RECURSIVE BNCmpAt(_, _, _)
BNCmpAt(a, b, i) ==
    IF i = 0 THEN 0
    ELSE IF a[i] < b[i] THEN -1
    ELSE IF a[i] > b[i] THEN 1
    ELSE BNCmpAt(a, b, i - 1)

BNCmp(a, b) ==
    CHOOSE r \in {IF Len(x) < Len(y) THEN -1
                  ELSE IF Len(x) > Len(y) THEN 1
                  ELSE BNCmpAt(x, y, Len(x)) : x \in {a}, y \in {b}} : TRUE

\* limbs i.. of a * s + c, for 0 <= s, c < Radix
RECURSIVE BNMulSmallAt(_, _, _, _)
BNMulSmallAt(a, s, i, c) ==
    IF i > Len(a) THEN (IF c = 0 THEN <<>> ELSE <<c>>)
    ELSE <<(a[i] * s + c) % Radix>> \o BNMulSmallAt(a, s, i + 1, (a[i] * s + c) \div Radix)

BNMulSmall(a, s) ==
    CHOOSE r \in {BNTrimAt(p, Len(p)) : p \in {BNMulSmallAt(x, t, 1, 0) : x \in {a}, t \in {s}}} : TRUE

\* a * (limbs i.. of b)
RECURSIVE BNMulAt(_, _, _)
BNMulAt(a, b, i) ==
    IF i > Len(b) THEN <<>>
    ELSE CHOOSE r \in {BNAddAt(p, q, 1, 0) :
                          p \in {BNMulSmallAt(a, b[i], 1, 0)},
                          q \in {<<0>> \o BNMulAt(a, b, i + 1)}} : TRUE

BNMul(a, b) ==
    CHOOSE r \in {BNTrimAt(p, Len(p)) : p \in {BNMulAt(x, y, 1) : x \in {a}, y \in {b}}} : TRUE

RECURSIVE Zeros(_)
Zeros(n) == IF n = 0 THEN <<>> ELSE <<0>> \o Zeros(n - 1)

\* a * 2^k
BNShl(a, k) ==
    CHOOSE r \in {IF x = <<>> THEN <<>>
                  ELSE Zeros(n \div LimbBits) \o BNMulSmallAt(x, Pow2(n % LimbBits), 1, 0) :
                      x \in {a}, n \in {k}} : TRUE

\* quotient limbs i..1 and remainder of a by a single limb 0 < s < Radix,
\* as the sequence <<remainder>> \o quotient limbs
RECURSIVE BNDivSmallAt(_, _, _, _)
BNDivSmallAt(a, s, i, r) ==
    IF i = 0 THEN <<r>>
    ELSE Append(BNDivSmallAt(a, s, i - 1, (r * Radix + a[i]) % s),
                (r * Radix + a[i]) \div s)

BNDivSmall(a, s) ==
    CHOOSE r \in {[q |-> BNTrimAt(Tail(d), Len(d) - 1), r |-> BNFromInt(Head(d))] :
                      d \in {BNDivSmallAt(x, t, Len(x), 0) : x \in {a}, t \in {s}}} : TRUE

\* the largest digit d < Radix with d * b <= r, found bit by bit
RECURSIVE BNDigit(_, _, _, _)
BNDigit(r, b, d, i) ==
    IF i < 0 THEN d
    ELSE IF BNCmp(BNMulSmall(b, d + Pow2(i)), r) <= 0
         THEN BNDigit(r, b, d + Pow2(i), i - 1)
         ELSE BNDigit(r, b, d, i - 1)

\* long division of limbs i..1 of a by b # 0 with running remainder r < b,
\* as the sequence <<remainder>> \o quotient limbs
RECURSIVE BNDivLongAt(_, _, _, _)
BNDivLongAt(a, b, i, r) ==
    IF i = 0 THEN <<r>>
    ELSE CHOOSE res \in
           {CHOOSE t \in {Append(BNDivLongAt(a, b, i - 1, BNSub(cur, BNMulSmall(b, d))), d) :
                             d \in {BNDigit(cur, b, 0, LimbBits - 1)}} : TRUE :
               cur \in {BNTrim(<<a[i]>> \o r)}} : TRUE

\* floor(a / b) and a mod b, for b # 0
BNDivMod(a, b) ==
    CHOOSE r \in {IF Len(y) = 1 THEN BNDivSmall(x, y[1])
                  ELSE CHOOSE res \in {[q |-> BNTrimAt(Tail(d), Len(d) - 1), r |-> Head(d)] :
                                          d \in {BNDivLongAt(x, y, Len(x), <<>>)}} : TRUE :
                      x \in {a}, y \in {b}} : TRUE

\* floor(a / 2^k)
BNShr(a, k) ==
    CHOOSE r \in {IF n \div LimbBits >= Len(x) THEN <<>>
                  ELSE BNDivSmall(SubSeq(x, n \div LimbBits + 1, Len(x)),
                                  Pow2(n % LimbBits)).q :
                      x \in {a}, n \in {k}} : TRUE

RECURSIVE IntBitLen(_)
IntBitLen(n) == IF n = 0 THEN 0 ELSE 1 + IntBitLen(n \div 2)

BNBitLen(a) ==
    CHOOSE r \in {IF x = <<>> THEN 0
                  ELSE LimbBits * (Len(x) - 1) + IntBitLen(x[Len(x)]) : x \in {a}} : TRUE

RECURSIVE IntTrailingZeros(_)
IntTrailingZeros(n) == IF n % 2 = 1 THEN 0 ELSE 1 + IntTrailingZeros(n \div 2)

\* number of trailing zero bits of limbs i.. of a, the limbs not all zero
RECURSIVE BNTrailingZerosAt(_, _)
BNTrailingZerosAt(a, i) ==
    IF a[i] = 0 THEN LimbBits + BNTrailingZerosAt(a, i + 1)
    ELSE IntTrailingZeros(a[i])

BNIsOdd(a) == a # <<>> /\ Head(a) % 2 = 1

(***************************************************************************)
(* Exact dyadic rationals  (-1)^neg * m * 2^e,  kept canonical: m is odd,  *)
(* or the number is zero (m = <<>>, e = 0, neg = FALSE), so that two       *)
(* dyadics are equal as numbers iff they are equal as records.             *)
(***************************************************************************)
DyZero == [neg |-> FALSE, m |-> <<>>, e |-> 0]

DyNorm(neg, m, e) ==
    CHOOSE r \in {IF v = <<>> THEN DyZero
                  ELSE CHOOSE d \in {[neg |-> neg, m |-> BNShr(v, tz), e |-> e + tz] :
                                        tz \in {BNTrailingZerosAt(v, 1)}} : TRUE :
                      v \in {m}} : TRUE

DyFromInt(n) ==
    IF n < 0 THEN DyNorm(TRUE, BNFromInt(0 - n), 0) ELSE DyNorm(FALSE, BNFromInt(n), 0)

DyNeg(x) == CHOOSE r \in {IF v.m = <<>> THEN v ELSE [v EXCEPT !.neg = ~v.neg] : v \in {x}} : TRUE

DyAbs(x) == [x EXCEPT !.neg = FALSE]

DyMul(x, y) ==
    CHOOSE r \in {DyNorm(a.neg # b.neg, BNMul(a.m, b.m), a.e + b.e) : a \in {x}, b \in {y}} : TRUE

\* x + y for x, y with mantissas mx, my aligned at the exponent e
DyAddAligned(x, y, mx, my, e) ==
    IF x.neg = y.neg THEN DyNorm(x.neg, BNAdd(mx, my), e)
    ELSE CHOOSE r \in {IF c = 0 THEN DyZero
                       ELSE IF c > 0 THEN DyNorm(x.neg, BNSub(mx, my), e)
                       ELSE DyNorm(y.neg, BNSub(my, mx), e) : c \in {BNCmp(mx, my)}} : TRUE

\* x + y for x, y aligned at the exponent e, the smaller of the two
DyAddAt(x, y, e) ==
    CHOOSE r \in {DyAddAligned(x, y, mx, my, e) :
                      mx \in {BNShl(x.m, x.e - e)},
                      my \in {BNShl(y.m, y.e - e)}} : TRUE

DyAdd(x, y) ==
    CHOOSE r \in {IF a.e < b.e THEN DyAddAt(a, b, a.e) ELSE DyAddAt(a, b, b.e) :
                      a \in {x}, b \in {y}} : TRUE

DySub(x, y) == DyAdd(x, DyNeg(y))

DyLt(x, y) == DySub(x, y).neg
DyLeq(x, y) == ~DyLt(y, x)

(***************************************************************************)
(* binary64: a float is a dyadic whose mantissa has at most 53 bits.  The  *)
(* values of this program stay far inside the normal exponent range, so    *)
(* subnormals, infinities and NaN do not arise; -0.0 is identified with    *)
(* 0.0 (they compare equal in Python).                                     *)
(***************************************************************************)
MantBits == 53

\* x with the low k >= 1 bits of its mantissa rounded away, q the mantissa
\* without them: to nearest, ties to even
RoundBits(x, k, q) ==
    CHOOSE r \in {IF c > 0 \/ (c = 0 /\ BNIsOdd(q))
                  THEN DyNorm(x.neg, BNAdd(q, <<1>>), x.e + k)
                  ELSE DyNorm(x.neg, q, x.e + k) :
                      c \in {BNCmp(BNSub(x.m, BNShl(q, k)), BNShl(<<1>>, k - 1))}} : TRUE

\* x rounded to nearest, ties to even, L the bit length of its mantissa
RoundTo(x, L) ==
    IF L <= MantBits THEN x
    ELSE CHOOSE r \in {RoundBits(x, L - MantBits, q) :
                          q \in {BNShr(x.m, L - MantBits)}} : TRUE

RN(x) == CHOOSE r \in {RoundTo(v, BNBitLen(v.m)) : v \in {x}} : TRUE

IsFloat(x) == BNBitLen(x.m) <= MantBits

fadd(x, y) == RN(DyAdd(x, y))
fsub(x, y) == RN(DySub(x, y))
fmul(x, y) == RN(DyMul(x, y))

\* x / y for nonzero x, y, the mantissa of x scaled by 2^s: a quotient of
\* at least 55 bits plus a sticky bit, rounded
QuotientScaled(x, y, s) ==
    CHOOSE r \in {CHOOSE t \in {RN(DyNorm(x.neg # y.neg, n, x.e - y.e - s - 1)) :
                                   n \in {BNAddAt(BNShl(d.q, 1), <<>>, 1,
                                                  IF d.r = <<>> THEN 0 ELSE 1)}} : TRUE :
                      d \in {BNDivMod(BNShl(x.m, s), y.m)}} : TRUE

\* x / y for nonzero x, y, where a scaling by 2^need gives 55 quotient bits
Quotient(x, y, need) ==
    IF need > 0 THEN QuotientScaled(x, y, need) ELSE QuotientScaled(x, y, 0)

\* x / y for y # 0
fdiv(x, y) ==
    CHOOSE r \in {IF a.m = <<>> THEN DyZero
                  ELSE Quotient(a, b, MantBits + 2 + BNBitLen(b.m) - BNBitLen(a.m)) :
                      a \in {x}, b \in {y}} : TRUE

\* float(n) for an int n that is exactly representable
float(n) == DyFromInt(n)

\* a decimal literal num/den: the float nearest to the rational
Literal(num, den) == fdiv(DyFromInt(num), DyFromInt(den))

fgt(x, y) == DyLt(y, x)
flt(x, y) == DyLt(x, y)

\* Python's max(a, b): b when b > a, otherwise a
pymax(a, b) == CHOOSE r \in {IF fgt(y, x) THEN y ELSE x : x \in {a}, y \in {b}} : TRUE

(***************************************************************************)
(* Constants (GST), app.py lines 13-18.                                    *)
(***************************************************************************)
OLD_OUTPUT_GST == Literal(12, 100)
NEW_OUTPUT_GST == Literal(5, 100)

\* the break-even taken as the plain difference of the two slabs
GUEST_BREAK_EVEN_PP_diff ==
    fmul(fsub(OLD_OUTPUT_GST, NEW_OUTPUT_GST), float(100))

GUEST_BREAK_EVEN_PP ==
    fmul(fsub(fdiv(fadd(float(1), OLD_OUTPUT_GST), fadd(float(1), NEW_OUTPUT_GST)),
              float(1)),
         float(100))

(***************************************************************************)
(* Sidebar inputs, app.py lines 37-53.  The widgets accept only values in  *)
(* their range; base_adr is a float, the other two are ints.  A base rate  *)
(* is written in half rupees so that non-integral rates can be entered.    *)
(***************************************************************************)
BASE_MIN_VALUE == 300
BASE_DEFAULT == 6000
ITC_MIN_VALUE == 0
ITC_MAX_VALUE == 12
ITC_DEFAULT == 3
ABSORB_MIN_VALUE == 0 - 5000
ABSORB_MAX_VALUE == 5000
ABSORB_DEFAULT == 0

\* what a user may type into the two number inputs
BaseHalfRupees == <<12000, 600, 0, 2000, 611, 800, 15000, 666>>
AbsorbTyped == <<0, 200, 0 - 200, 5000, 0 - 5000, 336, 6000, 100>>
NumBases == 5
NumAbsorb == 5

HalfRupees(h) == fdiv(float(h), float(2))

\* a number input with min_value=0.0
BaseAccepted_nonneg(h) == h >= 0

BaseAccepted(h) == h >= 2 * BASE_MIN_VALUE
ItcAccepted(pp) == pp >= ITC_MIN_VALUE /\ pp <= ITC_MAX_VALUE
AbsorbAccepted(a) == a >= ABSORB_MIN_VALUE /\ a <= ABSORB_MAX_VALUE

BaseInputs == {HalfRupees(BaseHalfRupees[i]) : i \in {j \in 1..NumBases : BaseAccepted(BaseHalfRupees[j])}}
ItcInputs == {pp \in (ITC_MIN_VALUE - 1)..(ITC_MAX_VALUE + 1) : ItcAccepted(pp)}
AbsorbInputs == {AbsorbTyped[i] : i \in {j \in 1..NumAbsorb : AbsorbAccepted(AbsorbTyped[j])}}

(***************************************************************************)
(* Core formulas, app.py lines 67-80.  itc_claim_points is passed as a     *)
(* float: Python converts the int operand of  / 100.0  exactly.            *)
(***************************************************************************)
\* the old bill computed with the new slab
guest_pay_old_newrate(base) == fmul(base, fadd(float(1), NEW_OUTPUT_GST))

guest_pay_old(base) == fmul(base, fadd(float(1), OLD_OUTPUT_GST))

guest_pay_new(base) == fmul(base, fadd(float(1), NEW_OUTPUT_GST))

profit_old(base, itc_claim_points) ==
    fadd(base, fmul(base, fdiv(itc_claim_points, float(100))))

profit_new(base_new) == base_new

neutral_adr(base_old, itc_claim_points) ==
    fmul(base_old, fadd(float(1), fdiv(itc_claim_points, float(100))))

\* line 90 without the max(0.0, ...) clamp
chosen_base_of_noclamp(profit, absorb) == fsub(profit, float(absorb))

\* line 90 with abs(...) in place of max(0.0, ...)
chosen_base_of_abs(profit, absorb) == DyAbs(fsub(profit, float(absorb)))

\* line 90: max(0.0, old_profit - absorb_rupees), the int converted to float
chosen_base_of(profit, absorb) == pymax(float(0), fsub(profit, float(absorb)))

\* lines 97-98: (x / base_adr - 1) * 100, for base_adr # 0
uplift_pct(x, base) == fmul(fsub(fdiv(x, base), float(1)), float(100))

\* range(0, 12): the last slab left out
slabs_short == [i \in 1..12 |-> i - 1]

\* line 133: list(range(0, 13))
slabs == [i \in 1..13 |-> i - 1]

\* the chart series drawn from neutral_adr instead of profit_old
sweep_neutral(base, absorb) ==
    [i \in 1..Len(slabs) |->
        guest_pay_new(chosen_base_of(neutral_adr(base, float(slabs[i])), absorb))]

\* line 134: the chart series, one value per slab
sweep(base, absorb) ==
    [i \in 1..Len(slabs) |->
        guest_pay_new(chosen_base_of(profit_old(base, float(slabs[i])), absorb))]

\* lines 164-177: which message the recommendation section shows
recommend(absorb) ==
    IF absorb > 0 THEN "info"
    ELSE IF absorb < 0 THEN "warning"
    ELSE "success"

\* the names bound by lines 85-95, and by lines 85-98
CalcNamesBeforeUplift ==
    {"old_profit", "neutral_base", "chosen_base", "new_profit_chosen",
     "guest_old", "guest_new_chosen", "guest_delta_chosen"}
CalcNames == CalcNamesBeforeUplift \cup {"adr_uplift_pct_neutral", "adr_uplift_pct_chosen"}

(***************************************************************************)
(* One run of the script.  The namespace of a run holds the widget values  *)
(* (lines 37-53) and the names the script binds; Streamlit executes every  *)
(* run in a fresh namespace.  The run is cut at the points where the       *)
(* script hands control to Streamlit or matplotlib: the calculation and    *)
(* KPI tiles (lines 85-124), the chart (lines 131-157) and the             *)
(* recommendation (lines 162-177).  The field  bound  is the set of names   *)
(* the run has bound so far; a name not yet bound holds a placeholder      *)
(* that nothing reads.                                                     *)
(***************************************************************************)
Fresh(b, pp, a) ==
    [base_adr |-> b, itc_claim_pp |-> pp, absorb_rupees |-> a,
     pc |-> "calc", error |-> "none", bound |-> {},
     old_profit |-> DyZero, neutral_base |-> DyZero, chosen_base |-> DyZero,
     new_profit_chosen |-> DyZero, guest_old |-> DyZero,
     guest_new_chosen |-> DyZero, guest_delta_chosen |-> DyZero,
     adr_uplift_pct_neutral |-> DyZero, adr_uplift_pct_chosen |-> DyZero,
     y_vals |-> <<>>, recommendation |-> ""]

\* lines 85-98; a zero base_adr raises ZeroDivisionError at line 97 and the
\* run ends there, with the later names unbound
CalcStep(ns) ==
    LET op  == profit_old(ns.base_adr, float(ns.itc_claim_pp))
        nb  == neutral_adr(ns.base_adr, float(ns.itc_claim_pp))
        cb  == chosen_base_of(op, ns.absorb_rupees)
        go  == guest_pay_old(ns.base_adr)
        gn  == guest_pay_new(cb)
        raised == ns.base_adr = DyZero
    IN  [ns EXCEPT !.old_profit = op,
                   !.neutral_base = nb,
                   !.chosen_base = cb,
                   !.new_profit_chosen = profit_new(cb),
                   !.guest_old = go,
                   !.guest_new_chosen = gn,
                   !.guest_delta_chosen = fsub(gn, go),
                   !.adr_uplift_pct_neutral =
                        IF raised THEN DyZero ELSE uplift_pct(nb, ns.base_adr),
                   !.adr_uplift_pct_chosen =
                        IF raised THEN DyZero ELSE uplift_pct(cb, ns.base_adr),
                   !.bound = IF raised THEN CalcNamesBeforeUplift ELSE CalcNames,
                   !.error = IF raised THEN "ZeroDivisionError" ELSE "none",
                   !.pc = IF raised THEN "done" ELSE "chart"]

\* lines 133-134
ChartStep(ns) ==
    [ns EXCEPT !.y_vals = sweep(ns.base_adr, ns.absorb_rupees),
               !.bound = ns.bound \cup {"y_vals"},
               !.pc = "recommend"]

\* lines 164-177
RecommendStep(ns) ==
    [ns EXCEPT !.recommendation = recommend(ns.absorb_rupees), !.pc = "done"]

RECURSIVE Finish(_)
Finish(ns) ==
    IF ns.pc = "calc" THEN Finish(CalcStep(ns))
    ELSE IF ns.pc = "chart" THEN Finish(ChartStep(ns))
    ELSE IF ns.pc = "recommend" THEN Finish(RecommendStep(ns))
    ELSE ns

\* the whole script on the given widget values
Script(b, pp, a) == Finish(Fresh(b, pp, a))

\* the script is deterministic: its result on every accepted widget triple
Runs == [b \in BaseInputs, pp \in ItcInputs, a \in AbsorbInputs |-> Script(b, pp, a)]

(***************************************************************************)
(* Several browser sessions of the hosted page.  Each session runs the     *)
(* script in its own namespace; the runs of different sessions interleave  *)
(* between the steps, and a widget change restarts the session's run.      *)
(***************************************************************************)
Sessions == {1, 2}

SessBaseHalfRupees == <<12000, 600, 611, 2000>>
SessItcTyped == <<3, 11, 0, 12>>
SessAbsorbTyped == <<0, 200, 0 - 200, 5000>>
SessNumBases == 2
SessNumItc == 2
SessNumAbsorb == 2

SessBaseInputs == {HalfRupees(SessBaseHalfRupees[i]) : i \in {j \in 1..SessNumBases : BaseAccepted(SessBaseHalfRupees[j])}}
SessItcInputs == {SessItcTyped[i] : i \in {j \in 1..SessNumItc : ItcAccepted(SessItcTyped[j])}}
SessAbsorbInputs == {SessAbsorbTyped[i] : i \in {j \in 1..SessNumAbsorb : AbsorbAccepted(SessAbsorbTyped[j])}}

\* The steps are deterministic in the namespace they start from: their
\* results on the namespaces a run of accepted session inputs goes through,
\* computed once; any other namespace is stepped directly.
SessFresh == {Fresh(b, pp, a) : b \in SessBaseInputs, pp \in SessItcInputs, a \in SessAbsorbInputs}
SessCalcRuns == [ns \in SessFresh |-> CalcStep(ns)]
SessChartRuns == [ns \in {SessCalcRuns[f] : f \in SessFresh} |-> ChartStep(ns)]
SessRuns == [b \in SessBaseInputs, pp \in SessItcInputs, a \in SessAbsorbInputs |-> Script(b, pp, a)]

CalcStepOf(ns) == IF ns \in DOMAIN SessCalcRuns THEN SessCalcRuns[ns] ELSE CalcStep(ns)
ChartStepOf(ns) == IF ns \in DOMAIN SessChartRuns THEN SessChartRuns[ns] ELSE ChartStep(ns)

\* chosen_base kept in one process-wide cell that every session reads
RunCalcShared(ss, self) ==
    LET mine == CalcStepOf(ss[self])
    IN  [t \in DOMAIN ss |->
            IF t = self THEN mine
            ELSE IF "chosen_base" \notin ss[t].bound THEN ss[t]
            ELSE [ss[t] EXCEPT !.chosen_base = mine.chosen_base]]

\* a step of session self writes the namespace of session self only
RunCalc(ss, self) == [ss EXCEPT ![self] = CalcStepOf(ss[self])]
RunChart(ss, self) == [ss EXCEPT ![self] = ChartStepOf(ss[self])]
RunRecommend(ss, self) == [ss EXCEPT ![self] = RecommendStep(ss[self])]

VARIABLES base_adr, itc_claim_pp, absorb_rupees, out, sessions

vars == <<base_adr, itc_claim_pp, absorb_rupees, out, sessions>>

Init ==
    /\ base_adr = float(BASE_DEFAULT)
    /\ itc_claim_pp = ITC_DEFAULT
    /\ absorb_rupees = ABSORB_DEFAULT
    /\ out = Runs[float(BASE_DEFAULT), ITC_DEFAULT, ABSORB_DEFAULT]
    /\ sessions = [s \in Sessions |-> Fresh(float(BASE_DEFAULT), ITC_DEFAULT, ABSORB_DEFAULT)]

(***************************************************************************)
(* One session, each widget change followed by the complete rerun.         *)
(***************************************************************************)
Rerun(b, pp, a) ==
    /\ base_adr' = b
    /\ itc_claim_pp' = pp
    /\ absorb_rupees' = a
    /\ out' = Runs[b, pp, a]
    /\ UNCHANGED sessions

SetBaseAdr == \E b \in BaseInputs : b # base_adr /\ Rerun(b, itc_claim_pp, absorb_rupees)
SetItcClaim == \E pp \in ItcInputs : pp # itc_claim_pp /\ Rerun(base_adr, pp, absorb_rupees)
SetAbsorb == \E a \in AbsorbInputs : a # absorb_rupees /\ Rerun(base_adr, itc_claim_pp, a)

Next == SetBaseAdr \/ SetItcClaim \/ SetAbsorb

Spec == Init /\ [][Next]_vars

(***************************************************************************)
(* Interleaved sessions.                                                   *)
(***************************************************************************)
single == <<base_adr, itc_claim_pp, absorb_rupees, out>>

SessRestart(s, b, pp, a) ==
    /\ sessions' = [sessions EXCEPT ![s] = Fresh(b, pp, a)]
    /\ UNCHANGED single

SessSetBaseAdr(s) ==
    \E b \in SessBaseInputs :
        /\ b # sessions[s].base_adr
        /\ SessRestart(s, b, sessions[s].itc_claim_pp, sessions[s].absorb_rupees)

SessSetItcClaim(s) ==
    \E pp \in SessItcInputs :
        /\ pp # sessions[s].itc_claim_pp
        /\ SessRestart(s, sessions[s].base_adr, pp, sessions[s].absorb_rupees)

SessSetAbsorb(s) ==
    \E a \in SessAbsorbInputs :
        /\ a # sessions[s].absorb_rupees
        /\ SessRestart(s, sessions[s].base_adr, sessions[s].itc_claim_pp, a)

SessCalc(s) ==
    /\ sessions[s].pc = "calc"
    /\ sessions' = RunCalc(sessions, s)
    /\ UNCHANGED single

SessChart(s) ==
    /\ sessions[s].pc = "chart"
    /\ sessions' = RunChart(sessions, s)
    /\ UNCHANGED single

SessRecommend(s) ==
    /\ sessions[s].pc = "recommend"
    /\ sessions' = RunRecommend(sessions, s)
    /\ UNCHANGED single

NextSessions ==
    \E s \in Sessions :
        \/ SessSetBaseAdr(s)
        \/ SessSetItcClaim(s)
        \/ SessSetAbsorb(s)
        \/ SessCalc(s)
        \/ SessChart(s)
        \/ SessRecommend(s)

SpecSessions == Init /\ [][NextSessions]_vars


(***************************************************************************)
(* Properties.                                                             *)
(***************************************************************************)
\* |x - y| <= num / den, in exact arithmetic
Within(x, y, num, den) ==
    DyLeq(DyMul(DyFromInt(den), DyAbs(DySub(x, y))), DyFromInt(num))

\* |x - y| <= |y| / den, in exact arithmetic
RelWithin(x, y, den) ==
    DyLeq(DyMul(DyFromInt(den), DyAbs(DySub(x, y))), DyAbs(y))

\* r is the larger of 0 and d
IsMaxWithZero(r, d) ==
    /\ r = DyZero \/ r = d
    /\ DyLeq(DyZero, r)
    /\ DyLeq(d, r)

AbsorbRange ==
    {AbsorbTyped[i] : i \in {j \in 1..Len(AbsorbTyped) : AbsorbAccepted(AbsorbTyped[j])}}

OutputFields ==
    {"old_profit", "neutral_base", "chosen_base", "new_profit_chosen",
     "guest_old", "guest_new_chosen", "guest_delta_chosen",
     "adr_uplift_pct_neutral", "adr_uplift_pct_chosen", "y_vals"}

\* C1: the chosen rate is max(0, profitOld - absorption), hence never
\* negative; base 6000, 3 points, absorption 200 give 5980 and a new guest
\* bill of 6279.
Inv_C1 ==
    /\ out.old_profit = profit_old(base_adr, float(itc_claim_pp))
    /\ IsMaxWithZero(out.chosen_base, fsub(out.old_profit, float(absorb_rupees)))
    /\ ~out.chosen_base.neg
    /\ (base_adr = float(6000) /\ itc_claim_pp = 3 /\ absorb_rupees = 200)
         => (out.chosen_base = float(5980) /\ out.guest_new_chosen = float(6279))

W_C1 ==
    /\ base_adr = float(6000) /\ itc_claim_pp = 3 /\ absorb_rupees = 200
    /\ out.chosen_base = float(5980)
    /\ out.guest_new_chosen = float(6279)

\* C2: the neutral rate equals the old-regime profit, both being
\* base * (1 + points/100), so the new-regime profit at the neutral rate
\* matches the old-regime profit exactly.
CE_C2 ==
    /\ out.neutral_base = out.old_profit
    /\ out.old_profit =
         fmul(base_adr, fadd(float(1), fdiv(float(itc_claim_pp), float(100))))
    /\ profit_new(out.neutral_base) = out.old_profit

\* C3: the chosen rate does not increase when the absorption grows, and it
\* floors at 0: an absorption above the old profit gives a chosen rate of 0
\* and a new guest bill of 0 (base 1000, 0 points, absorption 5000).
Inv_C3 ==
    /\ out.chosen_base = chosen_base_of(out.old_profit, absorb_rupees)
    /\ \A a1, a2 \in AbsorbRange :
          a1 <= a2 => DyLeq(chosen_base_of(out.old_profit, a2),
                            chosen_base_of(out.old_profit, a1))
    /\ \A a \in AbsorbRange :
          DyLt(out.old_profit, float(a)) =>
              /\ chosen_base_of(out.old_profit, a) = DyZero
              /\ guest_pay_new(chosen_base_of(out.old_profit, a)) = DyZero
    /\ DyLt(out.old_profit, float(absorb_rupees)) =>
          (out.chosen_base = DyZero /\ out.guest_new_chosen = DyZero)

W_C3 ==
    /\ base_adr = float(1000) /\ itc_claim_pp = 0 /\ absorb_rupees = 5000
    /\ out.chosen_base = DyZero
    /\ out.guest_new_chosen = DyZero

\* C4: the chart series has exactly 13 values, the value at position pp
\* (0..12, ascending) being guestPayNew(chosenRate(base, pp, absorption)).
Inv_C4 ==
    /\ DOMAIN out.y_vals = 1..13
    /\ \A pp \in 0..12 :
          out.y_vals[pp + 1] =
              guest_pay_new(pymax(float(0),
                  fsub(profit_old(base_adr, float(pp)), float(absorb_rupees))))

W_C4 ==
    /\ base_adr = float(6000) /\ absorb_rupees = 0
    /\ Len(out.y_vals) = 13
    /\ out.y_vals[1] = float(6300)
    /\ out.y_vals[13] = float(7056)

\* C5: the old guest bill is 1.12 * base and the new guest bill is 1.05 *
\* the rate it is taken at, as floats and within 1e-9 of the exact product;
\* the result is not rounded to rupees or paise.
Inv_C5 ==
    /\ out.guest_old = fmul(Literal(112, 100), base_adr)
    /\ out.guest_new_chosen = fmul(Literal(105, 100), out.chosen_base)
    /\ Within(DyMul(DyFromInt(100), out.guest_old),
              DyMul(DyFromInt(112), base_adr), 1, 10000000)
    /\ Within(DyMul(DyFromInt(100), out.guest_new_chosen),
              DyMul(DyFromInt(105), out.chosen_base), 1, 10000000)

\* base 305.5, 7 points: bills of 342.16 and 343.22925, neither a whole
\* number of paise once stored as a float
W_C5 ==
    /\ base_adr = HalfRupees(611) /\ itc_claim_pp = 7 /\ absorb_rupees = 0
    /\ out.guest_old = Literal(34216, 100)
    /\ out.guest_new_chosen = Literal(34322925, 100000)
    /\ out.guest_new_chosen.e < 0 - 20

\* the new guest bill at the margin-neutral rate for a float number of
\* credit-offset points
NeutralGuestPay(base, points) ==
    guest_pay_new(chosen_base_of(profit_old(base, points), 0))

\* C6 (as stated): at the break-even number of points the new guest bill at
\* the margin-neutral rate equals the old guest bill; below it the guest
\* pays less, above it more.
CE_C6 ==
    /\ Within(GUEST_BREAK_EVEN_PP, Literal(66667, 10000), 1, 1000)
    /\ NeutralGuestPay(base_adr, GUEST_BREAK_EVEN_PP) = out.guest_old
    /\ absorb_rupees = 0 =>
          /\ itc_claim_pp <= 6 => DyLt(out.guest_new_chosen, out.guest_old)
          /\ itc_claim_pp >= 7 => DyLt(out.guest_old, out.guest_new_chosen)

\* C6 (amended): the break-even is within 1e-3 of 6.6667; at the break-even
\* the new guest bill at the margin-neutral rate equals the old guest bill
\* within 1e-6 relative; for 0..6 points the guest pays less, for 7..12
\* points more.
Inv_C6 ==
    /\ Within(GUEST_BREAK_EVEN_PP, Literal(66667, 10000), 1, 1000)
    /\ RelWithin(NeutralGuestPay(base_adr, GUEST_BREAK_EVEN_PP), out.guest_old, 1000000)
    /\ absorb_rupees = 0 =>
          /\ itc_claim_pp <= 6 => DyLt(out.guest_new_chosen, out.guest_old)
          /\ itc_claim_pp >= 7 => DyLt(out.guest_old, out.guest_new_chosen)

W_C6 ==
    /\ absorb_rupees = 0 /\ itc_claim_pp = 7
    /\ DyLt(out.guest_old, out.guest_new_chosen)
    /\ NeutralGuestPay(base_adr, GUEST_BREAK_EVEN_PP) # out.guest_old

\* C7: what a session's run has computed depends on that session's three
\* inputs only: it is what the script computes when run alone on these
\* inputs, and two sessions with the same inputs hold the same values,
\* whatever the sessions evaluated before and however their steps interleave.
Inv_C7 ==
    /\ \A s \in Sessions :
          LET ns   == sessions[s]
              alone == SessRuns[ns.base_adr, ns.itc_claim_pp, ns.absorb_rupees]
          IN  \A f \in ns.bound : ns[f] = alone[f]
    /\ \A s, t \in Sessions :
          (/\ sessions[s].base_adr = sessions[t].base_adr
           /\ sessions[s].itc_claim_pp = sessions[t].itc_claim_pp
           /\ sessions[s].absorb_rupees = sessions[t].absorb_rupees)
          => \A f \in sessions[s].bound \cap sessions[t].bound :
                sessions[s][f] = sessions[t][f]

W_C7 ==
    /\ sessions[1].pc = "done" /\ sessions[2].pc = "done"
    /\ sessions[1].base_adr = float(300) /\ sessions[2].base_adr = float(300)
    /\ sessions[1].itc_claim_pp = 11 /\ sessions[2].itc_claim_pp = 11
    /\ sessions[1].absorb_rupees = 200 /\ sessions[2].absorb_rupees = 200
    /\ sessions[1].y_vals = sessions[2].y_vals
    /\ sessions[1].chosen_base = float(133)

\* C8: a run on accepted inputs raises nothing: the base rate is positive,
\* so both uplift percentages are computed (no division by zero) and every
\* output is bound; a chosen rate floored at 0 is an ordinary outcome.
Inv_C8 ==
    /\ out.error = "none"
    /\ out.pc = "done"
    /\ DyLt(DyZero, base_adr)
    /\ out.bound = OutputFields
    /\ out.adr_uplift_pct_neutral =
         fmul(fsub(fdiv(out.neutral_base, base_adr), float(1)), float(100))
    /\ out.adr_uplift_pct_chosen =
         fmul(fsub(fdiv(out.chosen_base, base_adr), float(1)), float(100))

W_C8 ==
    /\ out.error = "none"
    /\ absorb_rupees = 5000
    /\ out.chosen_base = DyZero
    /\ out.adr_uplift_pct_chosen = float(0 - 100)

\* C9: the profit change shown for the chosen rate is exactly -absorption
\* while the absorption does not exceed the old profit and -profitOld
\* beyond; so an absorption of 0 gives the neutral rate and an unchanged
\* profit, a negative absorption captures exactly |absorption|, and an
\* absorption above the old profit lowers profit by less than itself.
CE_C9 ==
    LET d == fsub(out.new_profit_chosen, out.old_profit)
        a == float(absorb_rupees)
    IN  /\ DyLeq(a, out.old_profit) => d = DyNeg(a)
        /\ DyLt(out.old_profit, a) =>
              (d = DyNeg(out.old_profit) /\ DyLt(DyAbs(d), a))
        /\ absorb_rupees = 0 =>
              /\ out.chosen_base = out.neutral_base
              /\ d = DyZero
              /\ out.recommendation = "success"
        /\ absorb_rupees < 0 => d = float(0 - absorb_rupees)

\* C10: the chart value at the selected number of points is the new guest
\* bill of the KPI tile, and the chart series never decreases with the
\* number of points.
Inv_C10 ==
    /\ out.y_vals[itc_claim_pp + 1] = out.guest_new_chosen
    /\ \A i \in 1..12 : DyLeq(out.y_vals[i], out.y_vals[i + 1])

W_C10 ==
    /\ base_adr = float(300) /\ itc_claim_pp = 11 /\ absorb_rupees = 0
    /\ out.y_vals[12] = out.guest_new_chosen
    /\ DyLt(out.y_vals[11], out.y_vals[12])
    /\ out.guest_new_chosen # guest_pay_new(out.neutral_base)

====
